---- MODULE Spec2Model ----
(***************************************************************************)
(* Model of StamPLCClient (src/examples/mqtt_command_client.py): the       *)
(* request/response correlation over MQTT.                                 *)
(*                                                                         *)
(* Threads: the caller threads that run connect(), disconnect() and        *)
(* send_command(), and the network thread started by loop_start(), which   *)
(* runs the callbacks _on_connect and _on_message.  They share             *)
(* self.connected and self.pending_requests without any lock.              *)
(*                                                                         *)
(* Atomicity: a block of code is one action when splitting it would add no *)
(* outcome.  It is split where another thread's step in between changes    *)
(* the result: between line 45 (connected = True) and the subscriptions of *)
(* lines 48-50, and between the membership test of line 64 and the store   *)
(* of line 65.                                                             *)
(*                                                                         *)
(* Time: clock is time.time() in milliseconds.  It advances by one poll    *)
(* interval, at any moment.                                                *)
(***************************************************************************)
EXTENDS Integers, FiniteSets, Sequences, TLC

\* ---- bounds of the model
\* the longest timeout argument and the last value of the clock, in poll
\* intervals
MaxPolls == 1

\* ---- program constants
\* time.sleep(0.1) in the wait loop of send_command, in milliseconds
PollMs == 100
\* connect(): timeout = 10 (seconds), in tenths of a second
ConnectTimeout == 100
\* connect(): time.sleep(0.5); timeout -= 0.5, in tenths of a second
ConnectPoll == 5

\* the threads that call send_command: two concurrent calls
Callers == {1, 2}
\* the timeout argument of send_command, in milliseconds
Timeouts == {k * PollMs : k \in 0..MaxPolls}
\* the last value of the clock
MaxClock == MaxPolls * PollMs
\* rc of CONNACK: 0 accepted, 5 refused (not authorised)
RCs == {0, 5}

\* ---- topics (StamPLCClient.__init__)
rpc_request_prefix == "v1/devices/me/rpc/request"
rpc_response_topic == "v1/devices/me/rpc/response/+"
telemetry_topic == "v1/devices/me/telemetry"
attributes_topic == "v1/devices/me/attributes"
\* the literal of line 60
RpcResponsePrefix == "v1/devices/me/rpc/response/"

\* ---- values
\* Python's None
None == [kind |-> "None"]
\* the return value {"status": "sent"} of line 140
Sent == [kind |-> "sent"]
\* request_id = f"req-{int(time.time() * 1000)}": one id per millisecond
ReqId(ms) == <<"req", ms>>
\* an id the client never generates
UnknownId == <<"dev", 0>>
\* stands for a payload without an 'id' key
NoId == <<"absent", 0>>
\* the id of a caller that generated none
NoRid == <<"nil", 0>>
NoMsg == [kind |-> "nomsg"]
\* the last topic level of a topic that has none
NoTok == <<"", 0>>
\* the 'status' values of a response
Statuses == {"success", "error"}
\* the 'status' values in a run of main ("absent": the payload has none)
RunStatuses == Statuses \cup {"pending", "absent"}

\* A topic is its fixed part and, for a response topic, its last level.
Topic(base, tok) == [base |-> base, tok |-> tok]
\* msg.topic.startswith(prefix)
StartsWith(topic, prefix) == topic.base = prefix
\* msg.topic == name
TopicIs(topic, name) == topic.base = name /\ topic.tok = NoTok
\* topics that none of the tests of lines 60, 67 and 70 recognises: the
\* response prefix without its last '/', a level below the telemetry topic,
\* and the topic of a request
OtherTopics ==
    {Topic("v1/devices/me/rpc/response", NoTok), Topic(telemetry_topic, UnknownId),
     Topic(rpc_request_prefix, UnknownId)}
\* the broker delivers a topic under a subscription that matches it; the
\* library hands every PUBLISH it receives to on_message, so a topic outside
\* the three filters reaches the handler too once the session is subscribed
Matches(topic, subs) ==
    \/ topic.base = RpcResponsePrefix /\ topic.tok # NoTok /\ rpc_response_topic \in subs
    \/ TopicIs(topic, telemetry_topic) /\ telemetry_topic \in subs
    \/ TopicIs(topic, attributes_topic) /\ attributes_topic \in subs
    \/ topic \in OtherTopics /\ subs # {}

\* a decoded JSON object: its 'id' (NoId when absent) and its 'status'
Payload(id, status) == [kind |-> "object", id |-> id, status |-> status]
\* 'id' in data
HasId(data) == data.id # NoId
IsPayload(v) == v.kind = "object"

\* JSON values that are not objects.  A container (an array or a string)
\* holds the text "id", as an element or as a substring, or does not: its
\* field id is IdText or NoId, so that HasId is the test 'id' in data.  A
\* scalar (a number, true, false, null) supports neither 'in' nor a subscript.
IdText == <<"id", 0>>
Container(kind, holdsId) ==
    [kind |-> kind, id |-> IF holdsId THEN IdText ELSE NoId, status |-> ""]
Scalar(kind) == [kind |-> kind, id |-> NoId, status |-> ""]
NonObjects ==
    {Container("array", TRUE), Container("string", TRUE), Container("string", FALSE),
     Scalar("null")}

\* the bytes of a payload: the JSON text of a value, that text cut short, or
\* bytes that are not UTF-8
Encodings == {"json", "badjson", "badutf8"}
\* no exception
NoError == "-"
\* json.loads(msg.payload.decode()), line 58: the exception it raises
DecodeError(enc) ==
    CASE enc = "badutf8" -> "UnicodeDecodeError"
      [] enc = "badjson" -> "JSONDecodeError"
      [] OTHER -> NoError
\* line 64 on a response topic: 'id' in data raises for a scalar, data['id']
\* raises for a container that holds "id" (indices must be integers)
LookupError(data) ==
    CASE data.kind \in {"number", "null"} -> "TypeError"
      [] data.kind \in {"array", "string"} /\ HasId(data) -> "TypeError"
      [] OTHER -> NoError

VARIABLES
    clock,        \* time.time() in ms
    connected,    \* self.connected
    pending,      \* self.pending_requests
    subscribed,   \* the topic filters subscribed so far
    loopRunning,  \* the network thread runs (loop_start .. loop_stop)
    netpc,        \* position of the network thread
    netmsg,       \* the message _on_message is handling
    mainpc,       \* position of the thread that calls connect()
    connTimeout,  \* the local timeout of connect(), in tenths of a second
    connRet,      \* the value connect() returned
    pc,           \* position of each send_command call
    wait,         \* its wait_response argument
    tmo,          \* its timeout argument, in ms
    rid,          \* its request_id
    start,        \* its start_time
    ret,          \* its return value
    origin,       \* history: the message each filled slot was stored from
    retFrom,      \* history: the message each returned response was stored from
    published,    \* the subscriptions in place when each call published
    answered      \* history: the calls for which a response was accepted

vars == <<clock, connected, pending, subscribed, loopRunning, netpc, netmsg,
          mainpc, connTimeout, connRet, pc, wait, tmo, rid, start, ret,
          origin, retFrom, published, answered>>

netVars == <<loopRunning, netpc, netmsg>>
mainVars == <<mainpc, connTimeout, connRet>>
callVars == <<pc, wait, tmo, rid, start, ret, retFrom, published>>
\* the calls that have registered their request id and are still running
InFlight == {c \in Callers : wait[c] /\ pc[c] \in {"pub", "loop", "sleep"}}
tableVars == <<pending, origin>>

AllSubscriptions == {rpc_response_topic, telemetry_topic, attributes_topic}
\* published[c] of a call that has not published
NotPublished == {"-"}

\* the request ids published so far (line 122)
PublishedIds == {rid[c] : c \in {x \in Callers : published[x] # NotPublished}}
\* the request ids registered so far (line 118)
RegisteredIds == {rid[c] : c \in {x \in Callers : wait[x]}} \ {NoRid}

Init ==
    /\ clock = 0
    /\ connected = FALSE
    /\ pending = <<>>
    /\ origin = <<>>
    /\ subscribed = {}
    /\ loopRunning = FALSE
    /\ netpc = "idle"
    /\ netmsg = NoMsg
    /\ mainpc = "start"
    /\ connTimeout = 0
    /\ connRet = FALSE
    /\ pc = [c \in Callers |-> "idle"]
    /\ wait = [c \in Callers |-> FALSE]
    /\ tmo = [c \in Callers |-> 0]
    /\ rid = [c \in Callers |-> NoRid]
    /\ start = [c \in Callers |-> 0]
    /\ ret = [c \in Callers |-> None]
    /\ retFrom = [c \in Callers |-> NoMsg]
    /\ published = [c \in Callers |-> NotPublished]
    /\ answered = {}

\* ---- time
\* the clock advances by one poll interval: every time.sleep(0.1) that was
\* running ends (nothing reads the clock before connect() has returned)
Tick ==
    /\ mainpc = "returned"
    /\ clock < MaxClock
    /\ clock' = clock + PollMs
    /\ pc' = [c \in Callers |-> IF pc[c] = "sleep" THEN "loop" ELSE pc[c]]
    /\ UNCHANGED <<connected, subscribed, wait, tmo, rid, start, ret, retFrom, published>>
    /\ UNCHANGED tableVars
    /\ UNCHANGED netVars
    /\ UNCHANGED mainVars
    /\ UNCHANGED answered

\* ---- connect(), lines 78-97
\* client.connect raises: the except branch returns False
ConnectRaises ==
    /\ mainpc = "start"
    /\ mainpc' = "returned"
    /\ connRet' = FALSE
    /\ UNCHANGED <<clock, connected, subscribed, connTimeout>>
    /\ UNCHANGED tableVars
    /\ UNCHANGED netVars
    /\ UNCHANGED callVars
    /\ UNCHANGED answered

\* lines 81-85: client.connect, loop_start, timeout = 10
ConnectBegin ==
    /\ mainpc = "start"
    /\ mainpc' = "connwait"
    /\ loopRunning' = TRUE
    /\ connTimeout' = ConnectTimeout
    /\ UNCHANGED <<clock, connected, subscribed, connRet, netpc, netmsg>>
    /\ UNCHANGED tableVars
    /\ UNCHANGED callVars
    /\ UNCHANGED answered

\* lines 86-94: one test of the loop condition, then a sleep or the return
ConnectWait ==
    /\ mainpc = "connwait"
    /\ IF ~connected /\ connTimeout > 0
         THEN /\ connTimeout' = connTimeout - ConnectPoll
              /\ UNCHANGED <<mainpc, connRet>>
         ELSE /\ mainpc' = "returned"
              /\ connRet' = connected
              /\ connTimeout' = 0
    /\ UNCHANGED <<clock, connected, subscribed>>
    /\ UNCHANGED tableVars
    /\ UNCHANGED netVars
    /\ UNCHANGED callVars
    /\ UNCHANGED answered

\* a disconnect that also resets the connected flag
DisconnectResetsFlag ==
    /\ mainpc \in {"start", "returned"}
    /\ netpc = "idle"
    /\ loopRunning' = FALSE
    /\ connected' = FALSE
    /\ UNCHANGED <<clock, subscribed, netpc, netmsg>>
    /\ UNCHANGED tableVars
    /\ UNCHANGED mainVars
    /\ UNCHANGED callVars
    /\ UNCHANGED answered

\* a disconnect that also empties the table of pending requests
DisconnectDropsPending ==
    /\ mainpc \in {"start", "returned"}
    /\ netpc = "idle"
    /\ loopRunning' = FALSE
    /\ pending' = <<>>
    /\ origin' = <<>>
    /\ UNCHANGED <<clock, connected, subscribed, netpc, netmsg>>
    /\ UNCHANGED mainVars
    /\ UNCHANGED callVars
    /\ UNCHANGED answered

\* disconnect(), lines 99-102, called before connect() or after it, any
\* number of times: loop_stop joins the network thread, so it returns when
\* no callback is running, and does nothing when the thread is not running;
\* client.disconnect() touches no field of StamPLCClient
Disconnect ==
    /\ mainpc \in {"start", "returned"}
    /\ netpc = "idle"
    /\ loopRunning' = FALSE
    /\ UNCHANGED <<clock, connected, subscribed, netpc, netmsg>>
    /\ UNCHANGED tableVars
    /\ UNCHANGED mainVars
    /\ UNCHANGED callVars
    /\ UNCHANGED answered

\* ---- the network thread
\* a handler that runs only while no call is in its wait loop
CallbacksBlockedByWaiters ==
    loopRunning /\ \A c \in Callers : pc[c] \notin {"loop", "sleep"}

\* line 82, loop_start(): the callbacks run on a thread of their own, whatever
\* the callers do, until loop_stop()
CallbacksCanRun == loopRunning

\* ---- _on_connect, lines 42-54
\* every acknowledgement taken for a success
AnyAcknowledgement(rc) == rc \in RCs

\* line 43: rc == 0
ConnectionAccepted(rc) == rc = 0

\* lines 43-45 (rc = 0) or line 54; the broker accepts the one connection
\* once, while connect() waits for it (reconnections are not modelled)
OnConnect(rc) ==
    /\ CallbacksCanRun
    /\ netpc = "idle"
    /\ mainpc = "connwait"
    /\ rc = 0 => ~connected
    /\ IF ConnectionAccepted(rc)
         THEN connected' = TRUE /\ netpc' = "sub_rpc"
         ELSE UNCHANGED <<connected, netpc>>
    /\ UNCHANGED <<clock, subscribed, loopRunning, netmsg>>
    /\ UNCHANGED tableVars
    /\ UNCHANGED mainVars
    /\ UNCHANGED callVars
    /\ UNCHANGED answered

\* one client.subscribe of lines 48-50
SubscribeStep(at, filter, next) ==
    /\ netpc = at
    /\ subscribed' = subscribed \cup {filter}
    /\ netpc' = next
    /\ UNCHANGED <<clock, connected, loopRunning, netmsg>>
    /\ UNCHANGED tableVars
    /\ UNCHANGED mainVars
    /\ UNCHANGED callVars
    /\ UNCHANGED answered

OnConnectSubscribe ==
    \/ SubscribeStep("sub_rpc", rpc_response_topic, "sub_tel")
    \/ SubscribeStep("sub_tel", telemetry_topic, "sub_attr")
    \/ SubscribeStep("sub_attr", attributes_topic, "idle")

\* ---- _on_message, lines 56-76
\* the inbound messages.  The device answers the requests that were
\* published, any number of times and at any later moment; a response echoes
\* its id in the topic or comes on a topic with another last level, and it
\* may carry an unknown id or none; telemetry and attribute payloads may
\* hold an 'id' too
\* the request ids the client can generate (line 110)
AllReqIds == {ReqId(k * PollMs) : k \in 0..MaxPolls}
\* the topics of the inbound messages
AllTopics ==
    {Topic(RpcResponsePrefix, i) : i \in AllReqIds \cup {UnknownId}}
        \cup {Topic(telemetry_topic, NoTok), Topic(attributes_topic, NoTok)}
        \cup OtherTopics

Msg(topic, enc, data) == [topic |-> topic, enc |-> enc, data |-> data]
\* the messages whose payload is the JSON text of an object
ObjectMessages ==
    {Msg(Topic(RpcResponsePrefix, i), "json", Payload(i, s)) :
        i \in PublishedIds, s \in Statuses}
    \cup {Msg(Topic(RpcResponsePrefix, UnknownId), "json", Payload(i, "success")) :
        i \in PublishedIds \cup {UnknownId, NoId}}
    \cup {Msg(Topic(b, NoTok), "json", Payload(i, "success")) :
        b \in {telemetry_topic, attributes_topic}, i \in PublishedIds \cup {NoId}}
\* a response or a telemetry message whose bytes do not decode (they would
\* have been the response to a published request), and JSON values that are
\* no object
UndecodableMessages ==
    {Msg(Topic(RpcResponsePrefix, i), e, Payload(i, "success")) :
        i \in PublishedIds, e \in Encodings \ {"json"}}
    \cup {Msg(Topic(telemetry_topic, NoTok), "badjson", Payload(NoId, "success"))}
    \cup {Msg(Topic(RpcResponsePrefix, UnknownId), "json", d) : d \in NonObjects}
    \cup {Msg(Topic(attributes_topic, NoTok), "json", Scalar("null"))}
\* messages on a topic the handler does not know, with the payload of a
\* response
UnrecognizedMessages ==
    {Msg(t, "json", Payload(i, "success")) :
        t \in OtherTopics, i \in PublishedIds}
InMessages == ObjectMessages \cup UndecodableMessages \cup UnrecognizedMessages

\* a classification by the fixed part of the topic alone, with no default
ClassifyLoosely(topic) ==
    IF topic.base \in {RpcResponsePrefix, "v1/devices/me/rpc/response"} THEN "RpcResponse"
    ELSE IF topic.base = telemetry_topic THEN "Telemetry"
    ELSE IF topic.base = attributes_topic THEN "Attribute"
    ELSE "RpcResponse"

\* the if / elif chain of lines 60, 67 and 70
Classify(topic) ==
    IF StartsWith(topic, RpcResponsePrefix) THEN "RpcResponse"
    ELSE IF TopicIs(topic, telemetry_topic) THEN "Telemetry"
    ELSE IF TopicIs(topic, attributes_topic) THEN "Attribute"
    ELSE "Unrecognized"

\* the exception raised inside the try block of lines 57-71
Raised(m) ==
    IF DecodeError(m.enc) # NoError THEN DecodeError(m.enc)
    ELSE IF Classify(m.topic) = "RpcResponse" THEN LookupError(m.data)
    ELSE NoError

\* only the first except clause
CaughtJsonOnly(exc) == exc = "JSONDecodeError"

\* the exceptions of lines 58-64, all of them subclasses of Exception
Exceptions == {"JSONDecodeError", "UnicodeDecodeError", "TypeError"}
\* lines 73-76: except json.JSONDecodeError, then except Exception
Caught(exc) ==
    \/ exc = "JSONDecodeError"
    \/ exc \in Exceptions

\* the test of line 60 left out: a message on any topic is accepted
AcceptsAnyTopic(topic, data) ==
    /\ HasId(data)
    /\ data.id \in DOMAIN pending

\* the test for a pending request of line 64 left out
AcceptsUnregistered(topic, data) ==
    /\ StartsWith(topic, RpcResponsePrefix)
    /\ HasId(data)

\* line 60 and line 64: the message is an RPC response for a pending request
Accepts(topic, data) ==
    /\ Classify(topic) = "RpcResponse"
    /\ HasId(data)
    /\ data.id \in DOMAIN pending

\* lines 58-64 and 67-76, on the network thread: decode, classify, test
\* for a pending request; a message that is not accepted is printed and
\* dropped, and so is one that raised (lines 73-76)
OnMessage(m) ==
    /\ CallbacksCanRun
    /\ netpc = "idle"
    /\ Matches(m.topic, subscribed)
    /\ IF Raised(m) # NoError
         THEN \* an exception that no except clause catches ends the thread
              /\ netpc' = IF Caught(Raised(m)) THEN netpc ELSE "crashed"
              /\ UNCHANGED <<netmsg, answered>>
         ELSE IF Accepts(m.topic, m.data)
           THEN /\ netpc' = "store"
                /\ netmsg' = [topic |-> m.topic, data |-> m.data,
                              registered |-> m.data.id \in RegisteredIds]
                /\ answered' = answered \cup {c \in InFlight : rid[c] = m.data.id}
           ELSE UNCHANGED <<netpc, netmsg, answered>>
    /\ UNCHANGED <<clock, connected, subscribed, loopRunning>>
    /\ UNCHANGED tableVars
    /\ UNCHANGED mainVars
    /\ UNCHANGED callVars

\* table[k] = v
Put(table, k, v) == (k :> v) @@ table
\* del table[k]
Remove(table, k) == [x \in DOMAIN table \ {k} |-> table[x]]

\* the response goes to a pending slot whatever its 'id'
SlotForAnyPending(data) ==
    IF DOMAIN pending = {} THEN data.id ELSE CHOOSE k \in DOMAIN pending : TRUE

\* line 65: the key data['id'] of the slot that takes the response
SlotFor(data) == data.id

\* line 65: self.pending_requests[data['id']] = data
StoreResponse ==
    /\ netpc = "store"
    /\ pending' = Put(pending, SlotFor(netmsg.data), netmsg.data)
    /\ origin' = Put(origin, SlotFor(netmsg.data), netmsg)
    /\ netpc' = "idle"
    /\ netmsg' = NoMsg
    /\ UNCHANGED <<clock, connected, subscribed, loopRunning>>
    /\ UNCHANGED mainVars
    /\ UNCHANGED callVars
    /\ UNCHANGED answered

\* ---- send_command, lines 104-140
\* send_command is left (return or exception): its locals are gone
Leave(c, how, value, from) ==
    /\ pc' = [pc EXCEPT ![c] = how]
    /\ ret' = [ret EXCEPT ![c] = value]
    /\ retFrom' = [retFrom EXCEPT ![c] = from]
    /\ tmo' = [tmo EXCEPT ![c] = 0]
    /\ start' = [start EXCEPT ![c] = 0]

\* a send_command without the test of line 106
NeverRefused == FALSE

\* line 106: not self.connected
NotConnected == ~connected

\* lines 106-118: the connected test, the request id, the registration;
\* send_command is called once connect() has returned (main, line 241);
\* the callers are numbered in the order of their calls
Call(c, w, t) ==
    /\ pc[c] = "idle"
    /\ mainpc = "returned"
    /\ \A d \in Callers : d < c => pc[d] # "idle"
    /\ wait' = [wait EXCEPT ![c] = w]
    /\ IF NotConnected
         THEN /\ Leave(c, "done", None, NoMsg)
              /\ UNCHANGED rid
              /\ UNCHANGED tableVars
         ELSE /\ pc' = [pc EXCEPT ![c] = "pub"]
              /\ rid' = [rid EXCEPT ![c] = ReqId(clock)]
              /\ tmo' = [tmo EXCEPT ![c] = t]
              /\ pending' = IF w THEN Put(pending, ReqId(clock), None) ELSE pending
              /\ origin' = IF w THEN Remove(origin, ReqId(clock)) ELSE origin
              /\ UNCHANGED <<ret, retFrom, start>>
    /\ UNCHANGED <<clock, connected, subscribed, published>>
    /\ UNCHANGED netVars
    /\ UNCHANGED mainVars
    /\ UNCHANGED answered

\* lines 121-127: publish, then start_time = time.time(), or line 140
Publish(c) ==
    /\ pc[c] = "pub"
    /\ published' = [published EXCEPT ![c] = subscribed]
    /\ IF wait[c]
         THEN /\ pc' = [pc EXCEPT ![c] = "loop"]
              /\ start' = [start EXCEPT ![c] = clock]
              /\ UNCHANGED <<ret, retFrom, tmo>>
         ELSE Leave(c, "done", Sent, NoMsg)
    /\ UNCHANGED <<clock, connected, subscribed, wait, rid>>
    /\ UNCHANGED tableVars
    /\ UNCHANGED netVars
    /\ UNCHANGED mainVars
    /\ UNCHANGED answered

\* the call is torn down by an exception that leaves send_command
TearDown(c, at) ==
    /\ pc[c] \in at
    /\ Leave(c, "torn", None, NoMsg)
    /\ UNCHANGED <<clock, connected, subscribed, wait, rid, published>>
    /\ UNCHANGED tableVars
    /\ UNCHANGED netVars
    /\ UNCHANGED mainVars
    /\ UNCHANGED answered

\* line 122: json.dumps or client.publish raises
PublishRaises(c) == TearDown(c, {"pub"})

\* lines 128-133: KeyboardInterrupt in the wait loop (caught in main, line 321)
Interrupt(c) == TearDown(c, {"loop", "sleep"})

\* line 128: time.time() - start_time < timeout
InTime(c) == clock - start[c] < tmo[c]

\* line 129: self.pending_requests[request_id] is not None
Filled(table, k) == table[k] # None

\* lines 128-138: one test of the loop condition, then the lookup of line
\* 129 and the return of lines 130-132 or the sleep of line 133, or the
\* timeout of lines 136-138
Poll(c) ==
    /\ pc[c] = "loop"
    /\ IF rid[c] \notin DOMAIN pending
         THEN \* KeyError at line 129 or at line 136
              /\ Leave(c, "raised", None, NoMsg)
              /\ UNCHANGED tableVars
         ELSE IF InTime(c)
           THEN IF Filled(pending, rid[c])
                  THEN /\ Leave(c, "done", pending[rid[c]], origin[rid[c]])
                       /\ pending' = Remove(pending, rid[c])
                       /\ origin' = Remove(origin, rid[c])
                  ELSE /\ pc' = [pc EXCEPT ![c] = "sleep"]
                       /\ UNCHANGED <<ret, retFrom, tmo, start>>
                       /\ UNCHANGED tableVars
           ELSE /\ Leave(c, "done", None, NoMsg)
                /\ pending' = Remove(pending, rid[c])
                /\ origin' = Remove(origin, rid[c])
    /\ UNCHANGED <<clock, connected, subscribed, wait, rid, published>>
    /\ UNCHANGED netVars
    /\ UNCHANGED mainVars
    /\ UNCHANGED answered

SendCommand ==
    \E c \in Callers :
        \/ \E w \in BOOLEAN, t \in Timeouts : Call(c, w, t)
        \/ Publish(c)
        \/ PublishRaises(c)
        \/ Interrupt(c)
        \/ Poll(c)

Next ==
    \/ Tick
    \/ ConnectRaises
    \/ ConnectBegin
    \/ ConnectWait
    \/ Disconnect
    \/ \E rc \in RCs : OnConnect(rc)
    \/ OnConnectSubscribe
    \/ \E m \in InMessages : OnMessage(m)
    \/ StoreResponse
    \/ SendCommand

Spec == Init /\ [][Next]_vars

\* ---- main, lines 231-326: one run of the command-line tool.  The main
\* thread is caller 1; mainpc is "returned" from the return of connect() to
\* the end of the try block, then "returned1" (line 242) or "exited".
\* the messages of a run: the device may answer with any status
RunMessages ==
    InMessages
        \cup {Msg(Topic(RpcResponsePrefix, i), "json", Payload(i, s)) :
                i \in PublishedIds, s \in RunStatuses}

\* line 241-242: connect() returned False, main returns 1
MainReturn1 ==
    /\ mainpc = "returned"
    /\ ~connRet
    /\ mainpc' = "returned1"
    /\ UNCHANGED <<clock, connected, subscribed, connTimeout, connRet>>
    /\ UNCHANGED tableVars
    /\ UNCHANGED netVars
    /\ UNCHANGED callVars
    /\ UNCHANGED answered

\* lines 246-319: the one command a run sends, always with
\* wait_response=True and a positive timeout (the monitor mode and a run
\* without a command send none)
MainCommand ==
    /\ mainpc = "returned"
    /\ connRet
    /\ \/ \E t \in Timeouts \ {0} : Call(1, TRUE, t)
       \/ Publish(1)
       \/ PublishRaises(1)
       \/ Interrupt(1)
       \/ Poll(1)

\* a finally clause that runs whatever the command is doing
CommandMayRun == TRUE

\* the try block of lines 244-319 is left: the command returned or raised,
\* or none was sent
CommandFinished == pc[1] \in {"idle", "done", "raised", "torn"}

\* lines 323-324: finally: client.disconnect(), then main ends
MainFinally ==
    /\ mainpc = "returned"
    /\ connRet
    /\ CommandFinished
    /\ netpc = "idle"
    /\ loopRunning' = FALSE
    /\ mainpc' = "exited"
    /\ UNCHANGED <<clock, connected, subscribed, netpc, netmsg, connTimeout, connRet>>
    /\ UNCHANGED tableVars
    /\ UNCHANGED callVars
    /\ UNCHANGED answered

MainNext ==
    \/ Tick
    \/ ConnectRaises
    \/ ConnectBegin
    \/ ConnectWait
    \/ \E rc \in RCs : OnConnect(rc)
    \/ OnConnectSubscribe
    \/ \E m \in RunMessages : OnMessage(m)
    \/ StoreResponse
    \/ MainReturn1
    \/ MainCommand
    \/ MainFinally

MainSpec == Init /\ [][MainNext]_vars

\* ======================================================================
\* Properties
\* ======================================================================

\* the calls inside the wait loop of lines 128-133
Waiting == {c \in Callers : pc[c] \in {"loop", "sleep"}}
\* call c returned a response (lines 130-132)
ReturnedResponse(c) == pc[c] = "done" /\ IsPayload(ret[c])

\* C1: with distinct request ids in flight, a call never returns a response
\* whose 'id' is the other call's id, and a response with id r only ever
\* fills the slot keyed r.
C1_ResponsesNeverCross ==
    /\ \A c1, c2 \in Callers :
         (c1 # c2 /\ rid[c1] # rid[c2] /\ IsPayload(ret[c1])) => ret[c1].id # rid[c2]
    /\ \A c \in Callers : IsPayload(ret[c]) => ret[c].id = rid[c]
    /\ \A k \in DOMAIN pending : pending[k] # None => pending[k].id = k

\* C1 witness: call 2 began and returned its response while call 1, begun
\* before it under another id, still waits with its own response in its slot.
C1_Witness ==
    /\ ReturnedResponse(2)
    /\ 1 \in Waiting
    /\ rid[1] # rid[2]
    /\ rid[1] \in DOMAIN pending
    /\ pending[rid[1]] # None

\* C2: a result that is not None is, unmodified, the payload of an inbound
\* message on a topic that starts with the RPC-response prefix, whose 'id' is
\* the call's request id and which arrived after that id was registered.
C2_ResultIsMatchingResponse ==
    \A c \in Callers :
        (pc[c] = "done" /\ wait[c] /\ ret[c] # None) =>
            /\ retFrom[c] # NoMsg
            /\ ret[c] = retFrom[c].data
            /\ StartsWith(retFrom[c].topic, RpcResponsePrefix)
            /\ HasId(ret[c])
            /\ ret[c].id = rid[c]
            /\ retFrom[c].registered

\* C2 witness: a waited call has returned a response.
C2_Witness == \E c \in Callers : wait[c] /\ ReturnedResponse(c)

\* C3 (as claimed): a waited call that ends its wait without a response to
\* its id having been accepted returns the timeout outcome, not before its
\* timeout has elapsed, and its id is then no key of pending_requests.
C3_TimeoutOutcomeAfterDeadline ==
    [][\A c \in Callers :
         (pc[c] = "loop" /\ pc'[c] \in {"done", "raised"} /\ c \notin answered) =>
            /\ pc'[c] = "done"
            /\ ret'[c] = None
            /\ clock - start[c] >= tmo[c]
            /\ rid[c] \notin DOMAIN pending']_vars

\* C4: an RPC response whose id has no entry in pending_requests when line 64
\* tests it changes nothing: no exception, no change of the table, of any
\* call's outcome or position, and nothing is kept of it for a later store.
C4_UnmatchedResponseIsNoOp ==
    [][UNCHANGED vars \/ \A m \in InMessages :
         ~(StartsWith(m.topic, RpcResponsePrefix) /\ m.data.id \notin DOMAIN pending
             /\ OnMessage(m))]_vars

\* C4 witness: a call has returned its response and its slot is gone, while
\* the network thread can still be handed a duplicate of that response.
C4_Witness ==
    \E c \in Callers :
        /\ ReturnedResponse(c)
        /\ rid[c] \notin DOMAIN pending
        /\ ENABLED OnMessage(Msg(Topic(RpcResponsePrefix, rid[c]), "json", ret[c]))

\* C5 (as claimed): a response stored into a slot that already holds a
\* response does not replace it.
C5_FirstWriteWins ==
    [][(netpc = "store" /\ netpc' = "idle" /\ netmsg.data.id \in DOMAIN pending
          /\ pending[netmsg.data.id] # None)
        => pending'[netmsg.data.id] = pending[netmsg.data.id]]_vars

\* C6 (as claimed): the three subscriptions are issued before connect()
\* returns True and before any request is published.
C6_SubscribeBeforeReady ==
    /\ (mainpc = "returned" /\ connRet) => subscribed = AllSubscriptions
    /\ \A c \in Callers :
         published[c] # NotPublished => published[c] = AllSubscriptions

\* C7 (as claimed): a call that ends while its slot holds a response returns
\* that response, not the timeout outcome.
C7_NoAcceptedResponseLost ==
    [][\A c \in Callers :
         (pc[c] = "loop" /\ pc'[c] = "done" /\ rid[c] \in DOMAIN pending
             /\ pending[rid[c]] # None) => ret'[c] = pending[rid[c]]]_vars

\* C8: a waiting call blocks only itself: whatever the calls are doing, the
\* network thread can handle every message its subscriptions let in and can
\* finish a store, every call at its loop test can take its step, and a call
\* that finds its response at a poll within its timeout returns it there.
C8_WaitBlocksOnlyItself ==
    /\ \A m \in InMessages :
         (loopRunning /\ netpc = "idle" /\ Matches(m.topic, subscribed))
            => ENABLED OnMessage(m)
    /\ netpc = "store" => ENABLED StoreResponse
    /\ \A c \in Callers : pc[c] = "loop" => ENABLED Poll(c)
    /\ \A c \in Callers :
         (pc[c] = "loop" /\ rid[c] \in DOMAIN pending /\ pending[rid[c]] # None
             /\ clock - start[c] < tmo[c])
            => ENABLED (Poll(c) /\ pc'[c] = "done" /\ ret'[c] = pending[rid[c]])

\* C8 witness: call 1 is asleep waiting for a response that has not come,
\* call 2 is at its poll with its response in its slot, and the network
\* thread is free to handle the next message.
C8_Witness ==
    /\ pc[1] = "sleep" /\ rid[1] \in DOMAIN pending /\ pending[rid[1]] = None
    /\ pc[2] = "loop" /\ rid[2] \in DOMAIN pending /\ pending[rid[2]] # None
    /\ clock - start[2] < tmo[2]
    /\ loopRunning /\ netpc = "idle" /\ subscribed = AllSubscriptions

\* C9 (as claimed): a waited call torn down after it registered its id has
\* left no slot for that id.
C9_TearDownReleasesSlot ==
    \A c \in Callers : (pc[c] = "torn" /\ wait[c]) => rid[c] \notin DOMAIN pending

\* C10 (as claimed): while no call has been torn down, every key of
\* pending_requests is the id of a call that registered and has not returned.
C10_TableHoldsOnlyCallsInFlight ==
    (\A c \in Callers : pc[c] # "torn") =>
        \A k \in DOMAIN pending : \E c \in InFlight : rid[c] = k

\* the calls between the request id of line 110 and their return
Running == {c \in Callers : pc[c] \in {"pub", "loop", "sleep"}}
\* a well-formed response to the request of call c
ResponseTo(c, status) ==
    Msg(Topic(RpcResponsePrefix, rid[c]), "json", Payload(rid[c], status))
\* call c waits for a response that has not come
WaitsUnanswered(c) ==
    /\ c \in Waiting
    /\ rid[c] \in DOMAIN pending
    /\ pending[rid[c]] = None

\* C11 (as claimed): a registration under an id that already has a slot
\* fails and leaves the table as it was.
C11_DuplicateRegistrationFails ==
    [][\A c \in Callers :
         (pc[c] = "idle" /\ pc'[c] # "idle" /\ wait'[c] /\ connected
             /\ ReqId(clock) \in DOMAIN pending)
            => (pc'[c] = "raised" /\ pending' = pending)]_vars

\* C12 (as claimed): two calls that run at the same time hold distinct
\* request ids.
C12_IdsInFlightAreDistinct ==
    \A c1, c2 \in Running : c1 # c2 => rid[c1] # rid[c2]

\* C13 (as claimed): a response whose payload 'id' differs from the last
\* level of its topic changes no pending slot.
C13_TopicAndPayloadIdAgree ==
    [][(netpc = "store" /\ netpc' = "idle" /\ netmsg.topic.tok # netmsg.data.id)
        => pending' = pending]_vars

\* C14: handling a message on the telemetry topic or on the attribute topic
\* changes nothing, whatever its payload: the table, every call's position and
\* result and the network thread are as before.
C14_TelemetryAndAttributesTouchNothing ==
    [][UNCHANGED vars \/ \A m \in InMessages :
         ~((TopicIs(m.topic, telemetry_topic) \/ TopicIs(m.topic, attributes_topic))
             /\ OnMessage(m))]_vars

\* C14 witness: a call waits with an empty slot while a telemetry message and
\* an attribute message that carry its request id as 'id' can be handled.
C14_Witness ==
    \E c \in Callers :
        /\ WaitsUnanswered(c)
        /\ \A b \in {telemetry_topic, attributes_topic} :
             /\ Msg(Topic(b, NoTok), "json", Payload(rid[c], "success")) \in InMessages
             /\ ENABLED OnMessage(Msg(Topic(b, NoTok), "json", Payload(rid[c], "success")))

\* C15: handling a message whose payload does not decode, or decodes to a
\* value that is no object, changes nothing on any topic: no exception leaves
\* _on_message (the network thread goes on), the table and every call are as
\* before.
C15_UndecodablePayloadIsDropped ==
    [][UNCHANGED vars \/ \A m \in InMessages :
         ~((m.enc # "json" \/ ~IsPayload(m.data)) /\ OnMessage(m))]_vars

\* C15 witness: a call waits with an empty slot while the response to its
\* request can arrive as bytes that are not UTF-8 and as JSON cut short.
C15_Witness ==
    \E c \in Callers :
        /\ WaitsUnanswered(c)
        /\ \A e \in Encodings \ {"json"} :
             /\ Msg(Topic(RpcResponsePrefix, rid[c]), e, Payload(rid[c], "success")) \in InMessages
             /\ ENABLED OnMessage(Msg(Topic(RpcResponsePrefix, rid[c]), e, Payload(rid[c], "success")))

\* every topic has the class that the tests of lines 60, 67 and 70 give it,
\* taken in their order
ClassifiedInOrder ==
    \A t \in AllTopics :
        LET isRpc == StartsWith(t, RpcResponsePrefix)
            isTel == ~isRpc /\ TopicIs(t, telemetry_topic)
            isAttr == ~isRpc /\ ~isTel /\ TopicIs(t, attributes_topic)
            isNone == ~isRpc /\ ~isTel /\ ~isAttr
        IN /\ Classify(t) \in {"RpcResponse", "Telemetry", "Attribute", "Unrecognized"}
           /\ (Classify(t) = "RpcResponse") <=> isRpc
           /\ (Classify(t) = "Telemetry") <=> isTel
           /\ (Classify(t) = "Attribute") <=> isAttr
           /\ (Classify(t) = "Unrecognized") <=> isNone

\* C16: every topic has exactly one class, by the tests in their order:
\* the response prefix, else the telemetry topic, else the attribute topic,
\* else Unrecognized; and handling a message on an Unrecognized topic changes
\* nothing.
C16_ClassificationTotalAndOrdered ==
    [][\/ UNCHANGED vars
       \/ /\ ClassifiedInOrder
          /\ \A m \in InMessages :
               /\ m.topic \in AllTopics
               /\ ~(~StartsWith(m.topic, RpcResponsePrefix)
                      /\ ~TopicIs(m.topic, telemetry_topic)
                      /\ ~TopicIs(m.topic, attributes_topic)
                      /\ OnMessage(m))]_vars


\* C16 witness: a call waits with an empty slot while a message with its
\* request id as 'id' can be handled on each of the unrecognized topics.
C16_Witness ==
    \E c \in Callers :
        /\ WaitsUnanswered(c)
        /\ \A t \in OtherTopics :
             /\ Msg(t, "json", Payload(rid[c], "success")) \in InMessages
             /\ ENABLED OnMessage(Msg(t, "json", Payload(rid[c], "success")))

\* C17 (as claimed): a call with wait_response=False registers no slot and
\* returns {"status": "sent"}, and a response that arrives for its id
\* afterwards changes nothing.
C17_FireAndForgetLeavesNoTrace ==
    [][UNCHANGED vars \/ \A c \in Callers, s \in Statuses :
         ~(pc[c] = "done" /\ ~wait[c] /\ ret[c] = Sent /\ OnMessage(ResponseTo(c, s)))]_vars

C19_TimeoutCarriesId ==
    [][\A c \in Callers :
         (pc[c] = "loop" /\ pc'[c] = "done" /\ ~IsPayload(ret'[c]))
            => (ret'[c].kind = "Timeout" /\ ret'[c].id = rid[c])]_vars

\* C20: disconnect() can be called whenever the caller is not inside
\* connect() (it waits for a running callback to end), it stops the network
\* thread and changes nothing else, pending_requests included, and a call
\* made when the thread is already stopped changes nothing at all.
C20_DisconnectIsIdempotent ==
    [][/\ (mainpc \in {"start", "returned"} /\ netpc = "idle") => ENABLED Disconnect
       /\ Disconnect =>
            /\ ~loopRunning'
            /\ UNCHANGED <<clock, connected, subscribed, netpc, netmsg, pending, origin>>
            /\ UNCHANGED mainVars
            /\ UNCHANGED callVars
            /\ ~loopRunning => UNCHANGED vars]_vars

\* C20 witness: disconnect() has been called after a successful connect while
\* a call still holds a slot, and can be called again.
C20_Witness ==
    /\ mainpc = "returned" /\ connRet /\ ~loopRunning
    /\ DOMAIN pending # {}
    /\ ENABLED Disconnect

\* C21 (as claimed): when a waited call publishes its request, the slot for
\* its request id is in pending_requests, and the call registers, then
\* publishes, then waits.
C21_SlotPresentAtPublish ==
    [][\A c \in Callers :
         /\ (pc[c] = "pub" /\ pc'[c] = "loop") => rid[c] \in DOMAIN pending
         /\ (pc'[c] = "pub" /\ pc[c] # "pub") => (pc[c] = "idle" /\ published[c] = NotPublished)
         /\ (pc'[c] = "loop" /\ pc[c] \notin {"loop", "sleep"}) =>
                (pc[c] = "pub" /\ published'[c] # NotPublished)]_vars

\* C22 (as claimed): a response with the id of a waiting call is accepted
\* whatever its status, the call returns what its slot holds and removes the
\* slot, and a response that comes for the id of a call that has returned its
\* response changes nothing.
C22_ResolutionIgnoresStatus ==
    [][\/ UNCHANGED vars
       \/ /\ \A c \in Callers, s \in RunStatuses :
               (WaitsUnanswered(c) /\ loopRunning /\ netpc = "idle"
                   /\ rpc_response_topic \in subscribed)
                  => ENABLED (OnMessage(ResponseTo(c, s)) /\ netpc' = "store")
          /\ \A c \in Callers :
               (pc[c] = "loop" /\ pc'[c] = "done" /\ IsPayload(ret'[c]))
                  => (ret'[c] = pending[rid[c]] /\ rid[c] \notin DOMAIN pending')
          /\ \A c \in Callers, s \in RunStatuses :
               ~(ReturnedResponse(c) /\ OnMessage(ResponseTo(c, s)))]_vars

\* C23: a send_command that begins while the connected flag is false returns
\* None at once, with either value of wait_response: it generates no request
\* id, and the table, the subscriptions and what was published are unchanged.
C23_NotConnectedSendsNothing ==
    [][\A c \in Callers :
         (pc[c] = "idle" /\ pc'[c] # "idle" /\ ~connected) =>
            /\ pc'[c] = "done"
            /\ ret'[c] = None
            /\ rid'[c] = NoRid
            /\ UNCHANGED <<pending, origin, published, subscribed, connected>>
            /\ UNCHANGED netVars]_vars

\* C23 witness: connect() failed, and a waited and an unwaited send_command
\* have both returned None without a request id.
C23_Witness ==
    /\ ~connected
    /\ pc[1] = "done" /\ pc[2] = "done"
    /\ wait[1] # wait[2]
    /\ \A c \in Callers : ret[c] = None /\ rid[c] = NoRid

\* C24 (as claimed): a waited call sleeps one poll interval only while its
\* timeout has not elapsed, so that its wait ends no later than the timeout
\* plus one poll interval after it began; it leaves its wait by returning,
\* and with timeout 0 it returns the timeout outcome.
C24_WaitEndsByReturnInTime ==
    [][\A c \in Callers :
         /\ pc[c] = "sleep" => clock - start[c] < tmo[c]
         /\ (pc[c] = "loop" /\ pc'[c] \notin {"loop", "sleep", "torn"}) =>
                /\ pc'[c] = "done"
                /\ tmo[c] = 0 => ret'[c] = None]_vars

\* C25: the connected flag starts false, is set only by _on_connect with
\* rc = 0 and is never reset; a send_command that begins after disconnect()
\* stopped the network thread passes the connected test, registers its slot
\* and can publish.
C25_ConnectedIsMonotonic ==
    /\ ~connected
    /\ [][/\ connected => connected'
          /\ connected' # connected => (netpc = "idle" /\ netpc' = "sub_rpc")
          /\ \A c \in Callers :
               (pc[c] = "idle" /\ pc'[c] # "idle" /\ connected /\ ~loopRunning) =>
                  /\ pc'[c] = "pub"
                  /\ wait'[c] => rid'[c] \in DOMAIN pending'
          /\ \A c \in Callers : pc[c] = "pub" => ENABLED Publish(c)]_vars

\* C25 witness: disconnect() has stopped the network thread after a
\* successful connect, the flag is still set, and a waited send_command can
\* begin and register its slot.
C25_Witness ==
    /\ mainpc = "returned" /\ connRet /\ ~loopRunning /\ connected
    /\ pc[1] = "idle"
    /\ ENABLED (Call(1, TRUE, PollMs) /\ pc'[1] = "pub" /\ ReqId(clock) \in DOMAIN pending')

\* C26 (as claimed): the request id of a waited call that has registered and
\* has not left send_command is a key of pending_requests.
C26_SlotPresentWhileWaiting ==
    \A c \in InFlight : rid[c] \in DOMAIN pending

\* C27: in a run of main, a command is sent only after connect() returned
\* True, by the main thread and once; after connect() returned False main
\* returns 1 and neither sends nor disconnects; disconnect() runs only in the
\* finally clause, once, after the command has finished, and main ends only
\* through it.
C27_MainSendsOnceThenDisconnects ==
    [][/\ \A c \in Callers :
            (pc[c] = "idle" /\ pc'[c] # "idle") => (c = 1 /\ mainpc = "returned" /\ connRet)
       /\ (mainpc' = "returned1" /\ mainpc # "returned1") =>
            (mainpc = "returned" /\ ~connRet /\ pc[1] = "idle" /\ UNCHANGED loopRunning)
       /\ (loopRunning /\ ~loopRunning') =>
            (mainpc = "returned" /\ connRet /\ mainpc' = "exited"
                /\ pc[1] \notin {"pub", "loop", "sleep"})
       /\ (mainpc' = "exited" /\ mainpc # "exited") => (loopRunning /\ ~loopRunning')
       /\ mainpc \in {"exited", "returned1"} => UNCHANGED <<mainpc, loopRunning, pc, published>>
       /\ (mainpc = "returned" /\ ~connRet) =>
            (ENABLED MainReturn1 /\ ~ENABLED MainFinally /\ ~ENABLED MainCommand)
       /\ (mainpc = "returned" /\ connRet /\ netpc = "idle"
              /\ pc[1] \in {"done", "raised", "torn"}) => ENABLED MainFinally]_vars

\* C27 witness: the command was interrupted in its wait loop and main has
\* ended through the finally clause.
C27_Witness == mainpc = "exited" /\ ~loopRunning /\ pc[1] = "torn" /\ published[1] # NotPublished

====
